---- MODULE Spec2Model ----
(***************************************************************************)
(* A model of lang/src/parser.rs: the nom parser of the cost-model         *)
(* language (documents of `predicate => cost_expression;` statements).     *)
(*                                                                         *)
(* Text is a sequence of one-character strings.  Every parser is an        *)
(* operator from the remaining input to a result record                    *)
(*     [ok |-> BOOLEAN, rest |-> remaining input, val |-> parsed value]    *)
(* which is nom's IResult: Ok((rest, val)) or Err(Error(..)).              *)
(***************************************************************************)
EXTENDS Integers, Sequences, FiniteSets, TLC

VARIABLES
    parts,   \* the pieces the input was written from
    input,   \* the argument of the entry point under study
    pc,      \* position of the run
    first,   \* linear_expression: the local `first`
    ops,     \* linear_expression: the local `ops` (pending pairs)
    result   \* the value returned by the entry point

vars == <<parts, input, pc, first, ops, result>>

\* Option: None and Some(v)
None == [t |-> "None"]

Some(v) == [t |-> "Some", v |-> v]

-----------------------------------------------------------------------------
(* The syntax trees built by the parser.                                   *)

Const(v) == [t |-> "Const", v |-> v]

Variable(name) == [t |-> "Variable", name |-> name]

BinaryExpression(lhs, op, rhs) == [t |-> "BinaryExpression", lhs |-> lhs, op |-> op, rhs |-> rhs]

LinearOps == {"Add", "Sub", "Mul", "Div"}

BooleanOps == {"Or", "And"}

ComparisonOps == {"Eq", "Ne", "Ge", "Le", "Gt", "Lt"}

Pair(op, expr) == [op |-> op, expr |-> expr]

-----------------------------------------------------------------------------
(* linear_expression: the regrouping of the flat list into a tree.         *)

\* join(lhs) of the closure in collapse_tree
Join(lhs, op, expr) == BinaryExpression(lhs, op, expr)

\* CollapseStep with the matching pair always joined into `first`
CollapseStepJoinFirst(acc, p, kind) ==
    IF kind = p.op
    THEN [first |-> Join(acc.first, p.op, p.expr), remain |-> acc.remain]
    ELSE [first |-> acc.first, remain |-> Append(acc.remain, p)]

\* CollapseStep with a matching pair kept pending when `remain` is not empty
CollapseStepKeep(acc, p, kind) ==
    IF kind = p.op /\ acc.remain = <<>>
    THEN [first |-> Join(acc.first, p.op, p.expr), remain |-> acc.remain]
    ELSE [first |-> acc.first, remain |-> Append(acc.remain, p)]

\* CollapseStep with `last` dropped when the popped pair is pushed back
CollapseStepDropLast(acc, p, kind) ==
    IF kind = p.op
    THEN IF acc.remain # <<>>
         THEN LET n == Len(acc.remain)
              IN [first |-> acc.first,
                  remain |-> Append(SubSeq(acc.remain, 1, n - 1),
                                    Pair(acc.remain[n].op, p.expr))]
         ELSE [first |-> Join(acc.first, p.op, p.expr), remain |-> acc.remain]
    ELSE [first |-> acc.first, remain |-> Append(acc.remain, p)]

\* one iteration of `for (op, expr) in rest.into_iter()`:
\* (before, last) is the popped pair remain[n]
CollapseStep(acc, p, kind) ==
    IF kind = p.op
    THEN IF acc.remain # <<>>
         THEN LET n == Len(acc.remain)
              IN [first |-> acc.first,
                  remain |-> Append(SubSeq(acc.remain, 1, n - 1),
                                    Pair(acc.remain[n].op,
                                         Join(acc.remain[n].expr, p.op, p.expr)))]
         ELSE [first |-> Join(acc.first, p.op, p.expr), remain |-> acc.remain]
    ELSE [first |-> acc.first, remain |-> Append(acc.remain, p)]

RECURSIVE CollapseLoop(_, _, _)
CollapseLoop(acc, rest, kind) ==
    IF rest = <<>> THEN acc
    ELSE CollapseLoop(CollapseStep(acc, Head(rest), kind), Tail(rest), kind)

collapse_tree(f, rest, kind) ==
    CollapseLoop([first |-> f, remain |-> <<>>], rest, kind)

\* let (first, ops) = collapse_tree(first, ops, kind)
CollapseNext(r, kind) == collapse_tree(r.first, r.remain, kind)

\* the four passes of linear_expression
Regroup(f, rest) ==
    CollapseNext(CollapseNext(CollapseNext(collapse_tree(f, rest, "Mul"),
                                           "Div"), "Add"), "Sub")

-----------------------------------------------------------------------------
(* nom's results and the combinators the parser is written with.           *)

Ok(rest, val) == [ok |-> TRUE, rest |-> rest, val |-> val]

\* Err(NomErr::Error((input, kind)))
Err(i, kind) == [ok |-> FALSE, rest |-> i, kind |-> kind]

\* a failed assert_eq!
Panic(i) == [ok |-> FALSE, rest |-> i, kind |-> "panic"]

Take(i, n) == SubSeq(i, 1, n)

Drop(i, n) == SubSeq(i, n + 1, Len(i))

IsPrefix(s, t) == Len(s) <= Len(t) /\ SubSeq(t, 1, Len(s)) = s

\* `let (input, x) = parser(input)?;` followed by F(x)
Then(r, F(_)) == IF r.ok THEN F(r) ELSE r

\* map(parser, |_| v)
MapTo(r, v) == IF r.ok THEN Ok(r.rest, v) ELSE r

\* alt((a, b, ..)): the first alternative that matches, else the error of
\* the last one
Alt2(a, b) == IF a.ok THEN a ELSE b

Alt3(a, b, c) == IF a.ok THEN a ELSE IF b.ok THEN b ELSE c

Alt4(a, b, c, d) == IF a.ok THEN a ELSE IF b.ok THEN b ELSE IF c.ok THEN c ELSE d

\* opt(p)(i), where r is p(i)
Opt(r, i) == IF r.ok THEN Ok(r.rest, Some(r.val)) ELSE Ok(i, None)

\* tag(t)(i)
Tag(t, i) ==
    IF IsPrefix(t, i) THEN Ok(Drop(i, Len(t)), t) ELSE Err(i, "Tag")

\* the number of leading characters of i that are in set
RECURSIVE SpanLen(_, _)
SpanLen(set, i) ==
    IF i # <<>> /\ Head(i) \in set THEN 1 + SpanLen(set, Tail(i)) ELSE 0

SplitAt(n, i, kind) ==
    IF n = 0 THEN Err(i, kind) ELSE Ok(Drop(i, n), Take(i, n))

\* take_while1(|c| c \in set)(i), also alpha1, alphanumeric1, digit1
TakeWhile1(set, i, kind) == SplitAt(SpanLen(set, i), i, kind)

Whitespace == {" ", "\t", "\r", "\n"}

whitespace(i) == TakeWhile1(Whitespace, i, "TakeWhile1")

opt_whitespace(i) == Opt(whitespace(i), i)

\* binary_operator(input, tag_, op)
binary_operator(i, tag_, op) ==
    Then(Tag(tag_, i), LAMBDA r :
    Ok(r.rest, op))

-----------------------------------------------------------------------------
(* Literals, identifiers and operators.                                    *)

Digits == <<"0", "1", "2", "3", "4", "5", "6", "7", "8", "9">>

Digit == {Digits[k] : k \in 1..10}

Alpha == {"a", "b", "c", "d", "e", "f", "g", "h", "i", "j", "k", "l", "m",
          "n", "o", "p", "q", "r", "s", "t", "u", "v", "w", "x", "y", "z",
          "A", "B", "C", "D", "E", "F", "G", "H", "I", "J", "K", "L", "M",
          "N", "O", "P", "Q", "R", "S", "T", "U", "V", "W", "X", "Y", "Z"}

Alphanumeric == Alpha \cup Digit

\* const_bool
const_bool(i) ==
    Then(Alt2(MapTo(Tag(<<"t", "r", "u", "e">>, i), TRUE),
              MapTo(Tag(<<"f", "a", "l", "s", "e">>, i), FALSE)), LAMBDA value :
    Ok(value.rest, Const(value.val)))

\* many0(alt((alphanumeric1, tag("_")))): the rest after the repetition;
\* r is the alternative at i
RECURSIVE IdentTail(_)
RECURSIVE IdentTailAfter(_, _)
IdentTailAfter(i, r) == IF r.ok THEN IdentTail(r.rest) ELSE i

IdentTail(i) ==
    IdentTailAfter(i, Alt2(TakeWhile1(Alphanumeric, i, "AlphaNumeric"),
                           Tag(<<"_">>, i)))

\* Variable::new(name) of the text recognize(..) consumed
Recognized(i, rest) == Ok(rest, Variable(Take(i, Len(i) - Len(rest))))

\* variable
variable(i) ==
    Then(Tag(<<"$">>, i), LAMBDA d :
    Then(Alt2(TakeWhile1(Alpha, d.rest, "Alpha"), Tag(<<"_">>, d.rest)), LAMBDA h :
    Recognized(i, IdentTail(h.rest))))

DigitValue(c) == (CHOOSE k \in 1..10 : Digits[k] = c) - 1

\* nums.parse() of a run of digits
RECURSIVE ParseDigits(_)
ParseDigits(s) ==
    IF s = <<>> THEN 0
    ELSE 10 * ParseDigits(Take(s, Len(s) - 1)) + DigitValue(s[Len(s)])

\* result *= -1 if neg.is_some()
Signed(neg, n) == IF neg # None THEN n * (-1) ELSE n

\* int reading zero or more digits (digit0 for digit1)
IntDigit0(i) ==
    Then(Opt(Tag(<<"-">>, i), i), LAMBDA neg :
    Ok(Drop(neg.rest, SpanLen(Digit, neg.rest)),
       Const(Signed(neg.val,
                    ParseDigits(Take(neg.rest, SpanLen(Digit, neg.rest)))))))

\* int
int(i) ==
    Then(Opt(Tag(<<"-">>, i), i), LAMBDA neg :
    Then(TakeWhile1(Digit, neg.rest, "Digit"), LAMBDA nums :
    Ok(nums.rest, Const(Signed(neg.val, ParseDigits(nums.val))))))

\* any_linear_binary_operator
any_linear_binary_operator(i) ==
    Alt4(binary_operator(i, <<"+">>, "Add"),
         binary_operator(i, <<"-">>, "Sub"),
         binary_operator(i, <<"*">>, "Mul"),
         binary_operator(i, <<"/">>, "Div"))

\* any_boolean_operator
any_boolean_operator(i) ==
    Alt2(binary_operator(i, <<"|", "|">>, "Or"),
         binary_operator(i, <<"&", "&">>, "And"))

\* the operator choice of comparison with `>` and `<` tried before `>=`, `<=`
ComparisonTagsShadowed ==
    << [tag |-> <<"=", "=">>, op |-> "Eq"],
       [tag |-> <<"!", "=">>, op |-> "Ne"],
       [tag |-> <<">">>, op |-> "Gt"],
       [tag |-> <<"<">>, op |-> "Lt"],
       [tag |-> <<">", "=">>, op |-> "Ge"],
       [tag |-> <<"<", "=">>, op |-> "Le"] >>

\* the alternatives of the operator choice of comparison, in source order
ComparisonTags ==
    << [tag |-> <<"=", "=">>, op |-> "Eq"],
       [tag |-> <<"!", "=">>, op |-> "Ne"],
       [tag |-> <<">", "=">>, op |-> "Ge"],
       [tag |-> <<"<", "=">>, op |-> "Le"],
       [tag |-> <<">">>, op |-> "Gt"],
       [tag |-> <<"<">>, op |-> "Lt"] >>

\* alt((..)) over a list of binary_operator alternatives: the first that
\* matches, from alternative k on
RECURSIVE AltOperators(_, _, _)
AltOperators(alts, k, i) ==
    IF k = Len(alts) THEN binary_operator(i, alts[k].tag, alts[k].op)
    ELSE Alt2(binary_operator(i, alts[k].tag, alts[k].op),
              AltOperators(alts, k + 1, i))

any_comparison_operator(i) == AltOperators(ComparisonTags, 1, i)

\* surrounded_by(whitespace, any_linear_binary_operator)
SurroundedLinearOperator(i) ==
    Then(whitespace(i), LAMBDA a :
    Then(any_linear_binary_operator(a.rest), LAMBDA r :
    Then(whitespace(r.rest), LAMBDA b :
    Ok(b.rest, r.val))))

\* surrounded_by(whitespace, any_boolean_operator)
SurroundedBooleanOperator(i) ==
    Then(whitespace(i), LAMBDA a :
    Then(any_boolean_operator(a.rest), LAMBDA r :
    Then(whitespace(r.rest), LAMBDA b :
    Ok(b.rest, r.val))))

\* surrounded_by(opt(whitespace), alt((.. the six comparison operators ..)))
SurroundedComparisonOperator(i) ==
    Then(opt_whitespace(i), LAMBDA a :
    Then(any_comparison_operator(a.rest), LAMBDA r :
    Then(opt_whitespace(r.rest), LAMBDA b :
    Ok(b.rest, r.val))))

-----------------------------------------------------------------------------
(* The arithmetic grammar.                                                 *)

RECURSIVE linear_expression(_)
RECURSIVE linear_expression_leaf(_)
RECURSIVE ManyLinearPairs(_, _)

\* parenthesized(linear_expression, input)
ParenthesizedLinear(i) ==
    Then(Tag(<<"(">>, i), LAMBDA open :
    Then(linear_expression(opt_whitespace(open.rest).rest), LAMBDA r :
    Then(Tag(<<")">>, opt_whitespace(r.rest).rest), LAMBDA close :
    Ok(close.rest, r.val))))

linear_expression_leaf(i) ==
    Alt3(ParenthesizedLinear(i), int(i), variable(i))

\* tuple((surrounded_by(whitespace, any_linear_binary_operator),
\*        linear_expression_leaf))
LinearPair(i) ==
    Then(SurroundedLinearOperator(i), LAMBDA o :
    Then(linear_expression_leaf(o.rest), LAMBDA l :
    Ok(l.rest, Pair(o.val, l.val))))

\* one round of many0(tuple((.., linear_expression_leaf))); r is the pair at i
LinearRound(i, acc, r) ==
    IF ~r.ok THEN Ok(i, acc)
    ELSE IF r.rest = i THEN Err(i, "Many0")
    ELSE ManyLinearPairs(r.rest, Append(acc, r.val))

\* many0(tuple((.., linear_expression_leaf)))
ManyLinearPairs(i, acc) == LinearRound(i, acc, LinearPair(i))

\* assert_eq!(ops.len(), 0); Ok((input, first))
Regrouped(i, rest, r) ==
    IF Len(r.remain) # 0 THEN Panic(i) ELSE Ok(rest, r.first)

linear_expression(i) ==
    Then(linear_expression_leaf(i), LAMBDA f :
    Then(ManyLinearPairs(f.rest, <<>>), LAMBDA ps :
    Regrouped(i, ps.rest, Regroup(f.val, ps.val))))

-----------------------------------------------------------------------------
(* The condition grammar.                                                  *)

\* comparison
comparison(i) ==
    Then(linear_expression(i), LAMBDA lhs :
    Then(SurroundedComparisonOperator(lhs.rest), LAMBDA op :
    Then(linear_expression(op.rest), LAMBDA rhs :
    Ok(rhs.rest, BinaryExpression(lhs.val, op.val, rhs.val)))))

RECURSIVE condition(_)
RECURSIVE condition_leaf(_)
RECURSIVE ManyConditionPairs(_, _)

\* parenthesized(condition, input)
ParenthesizedCondition(i) ==
    Then(Tag(<<"(">>, i), LAMBDA open :
    Then(condition(opt_whitespace(open.rest).rest), LAMBDA r :
    Then(Tag(<<")">>, opt_whitespace(r.rest).rest), LAMBDA close :
    Ok(close.rest, r.val))))

\* map(comparison, Condition::Comparison)
ComparisonCondition(i) ==
    Then(comparison(i), LAMBDA c :
    Ok(c.rest, [t |-> "Comparison", cmp |-> c.val]))

condition_leaf(i) ==
    Alt4(ParenthesizedCondition(i),
         ComparisonCondition(i),
         variable(i),
         const_bool(i))

\* tuple((surrounded_by(whitespace, any_boolean_operator), condition_leaf))
ConditionPair(i) ==
    Then(SurroundedBooleanOperator(i), LAMBDA o :
    Then(condition_leaf(o.rest), LAMBDA l :
    Ok(l.rest, Pair(o.val, l.val))))

\* one round of many0(tuple((.., condition_leaf))); r is the pair at i
ConditionRound(i, acc, r) ==
    IF ~r.ok THEN Ok(i, acc)
    ELSE IF r.rest = i THEN Err(i, "Many0")
    ELSE ManyConditionPairs(r.rest, Append(acc, r.val))

\* many0(tuple((.., condition_leaf)))
ManyConditionPairs(i, acc) == ConditionRound(i, acc, ConditionPair(i))

\* Condition::Boolean(Box::new(BinaryExpression::new(first, op, expr)))
Boolean(lhs, op, rhs) == [t |-> "Boolean", lhs |-> lhs, op |-> op, rhs |-> rhs]

\* the fold nesting to the right: leaf0 op1 (leaf1 op2 (..))
RECURSIVE FoldConditionRight(_, _)
FoldConditionRight(f, ps) ==
    IF ps = <<>> THEN f
    ELSE Boolean(f, Head(ps).op, FoldConditionRight(Head(ps).expr, Tail(ps)))

\* for (op, expr) in ops.into_iter() { first = Condition::Boolean(..) }
RECURSIVE FoldCondition(_, _)
FoldCondition(f, ps) ==
    IF ps = <<>> THEN f
    ELSE FoldCondition(Boolean(f, Head(ps).op, Head(ps).expr), Tail(ps))

condition(i) ==
    Then(condition_leaf(i), LAMBDA f :
    Then(ManyConditionPairs(f.rest, <<>>), LAMBDA ps :
    Ok(ps.rest, FoldCondition(f.val, ps.val))))

\* where_clause
where_clause(i) ==
    Then(Tag(<<"w", "h", "e", "r", "e">>, i), LAMBDA kw :
    Then(whitespace(kw.rest), LAMBDA w :
    Then(condition(w.rest), LAMBDA c :
    Ok(c.rest, [condition |-> c.val]))))

-----------------------------------------------------------------------------
(* The embedded query.  consume_query is the parser of the graphql_parser  *)
(* crate; graphql_query only looks at the shape of what it returns.        *)

\* Vec::pop taking the first element instead of the last
PopFront(s) == IF s = <<>> THEN None ELSE Some(s[1])

\* Vec::pop
Pop(s) == IF s = <<>> THEN None ELSE Some(s[Len(s)])

Definition(kind, name, variable_definitions, directives, items) ==
    [kind |-> kind, name |-> name,
     variable_definitions |-> variable_definitions,
     directives |-> directives, items |-> items]

\* match (directives.pop(), selection.pop())
MatchPopped(rest, directive, selection) ==
    IF directive = None /\ selection # None
    THEN Ok(rest, [t |-> "Selection", item |-> selection.v])
    ELSE IF directive # None /\ selection = None
    THEN Ok(rest, [t |-> "Directive", item |-> directive.v])
    ELSE Err(rest, "Verify")

\* graphql_query, where q is the outcome of consume_query(i):
\* [ok |-> FALSE] or [ok |-> TRUE, def |-> definition, rest |-> remainder]
GraphqlQuery(i, q) ==
    IF ~q.ok THEN Err(i, "Verify")
    ELSE IF q.def.kind # "Query" THEN Err(q.rest, "Verify")
    ELSE IF q.def.name # None THEN Err(q.rest, "Verify")
    ELSE IF Len(q.def.variable_definitions) # 0 THEN Err(q.rest, "Verify")
    ELSE MatchPopped(q.rest, Pop(q.def.directives), Pop(q.def.items))

Field(name) == [t |-> "Field", name |-> name]

Directive(name) == [t |-> "Directive", name |-> name]

\* The query texts of the model and what consume_query makes of them:
\* `query{a}`, `query{a b}`, `query N{a}`, `mutation{a}` and the bare
\* selection set `{a}`.
KnownQueries ==
    << [text |-> <<"q", "u", "e", "r", "y", "{", "a", "}">>,
        def |-> Definition("Query", None, <<>>, <<>>, <<Field("a")>>)],
       [text |-> <<"q", "u", "e", "r", "y", "{", "a", " ", "b", "}">>,
        def |-> Definition("Query", None, <<>>, <<>>, <<Field("a"), Field("b")>>)],
       [text |-> <<"q", "u", "e", "r", "y", " ", "N", "{", "a", "}">>,
        def |-> Definition("Query", Some("N"), <<>>, <<>>, <<Field("a")>>)],
       [text |-> <<"m", "u", "t", "a", "t", "i", "o", "n", "{", "a", "}">>,
        def |-> Definition("Mutation", None, <<>>, <<>>, <<Field("a")>>)],
       [text |-> <<"{", "a", "}">>,
        def |-> Definition("SelectionSet", None, <<>>, <<>>, <<Field("a")>>)] >>

SkipWhitespace(i) == Drop(i, SpanLen(Whitespace, i))

\* the definition read at the start of body, if it is a known query
ConsumeKnown(body, known) ==
    IF known = {} THEN [ok |-> FALSE]
    ELSE [ok |-> TRUE,
          def |-> KnownQueries[CHOOSE k \in known : TRUE].def,
          rest |-> SkipWhitespace(
                       Drop(body, Len(KnownQueries[CHOOSE k \in known : TRUE].text)))]

\* consume_query(i): the tokenizer skips the whitespace before and after the
\* definition; a text that is none of the known queries is a parse error.
consume_query(i) ==
    ConsumeKnown(SkipWhitespace(i),
                 {k \in 1..Len(KnownQueries) :
                     IsPrefix(KnownQueries[k].text, SkipWhitespace(i))})

graphql_query(i) == GraphqlQuery(i, consume_query(i))

-----------------------------------------------------------------------------
(* Statements and documents.                                               *)

\* terminated(where_clause, whitespace)
TerminatedWhereClause(i) ==
    Then(where_clause(i), LAMBDA w :
    Then(whitespace(w.rest), LAMBDA s :
    Ok(s.rest, w.val)))

\* predicate
predicate(i) ==
    Then(graphql_query(opt_whitespace(i).rest), LAMBDA g :
    Then(Opt(TerminatedWhereClause(opt_whitespace(g.rest).rest),
             opt_whitespace(g.rest).rest), LAMBDA w :
    Ok(opt_whitespace(w.rest).rest,
       [graphql |-> g.val, where_clause |-> w.val])))

\* statement
statement(i) ==
    Then(predicate(i), LAMBDA p :
    Then(Tag(<<"=", ">">>, p.rest), LAMBDA arrow :
    Then(whitespace(arrow.rest), LAMBDA w :
    Then(linear_expression(w.rest), LAMBDA c :
    Then(Tag(<<";">>, c.rest), LAMBDA semi :
    Ok(opt_whitespace(semi.rest).rest,
       [predicate |-> p.val, cost_expr |-> c.val]))))))

RECURSIVE ManyStatements(_, _)

\* StatementRound handing back the input where the failed attempt stopped
StatementRoundKeepFailed(i, acc, r) ==
    IF ~r.ok THEN Ok(r.rest, acc)
    ELSE IF r.rest = i THEN Err(i, "Many0")
    ELSE ManyStatements(r.rest, Append(acc, r.val))

\* one round of many0(statement); r is statement(i)
StatementRound(i, acc, r) ==
    IF ~r.ok THEN Ok(i, acc)
    ELSE IF r.rest = i THEN Err(i, "Many0")
    ELSE ManyStatements(r.rest, Append(acc, r.val))

\* many0(statement)
ManyStatements(i, acc) == StatementRound(i, acc, statement(i))

\* document
document(i) ==
    Then(ManyStatements(i, <<>>), LAMBDA m :
    Ok(m.rest, [statements |-> m.val]))

-----------------------------------------------------------------------------
(* The run of the regrouping, pass by pass, on a flat list the grammar     *)
(* can produce.                                                            *)

MaxOps == 3

Leaves == {Const(1), Const(2), Const(10),
           BinaryExpression(Const(1), "Add", Const(10))}

RECURSIVE PairSeqs(_)
PairSeqs(n) ==
    IF n = 0 THEN {<<>>}
    ELSE LET shorter == PairSeqs(n - 1)
         IN shorter \cup
            {Append(s, Pair(o, l)) : s \in {q \in shorter : Len(q) = n - 1},
                                     o \in LinearOps, l \in Leaves}

FlatLists == [first : Leaves, ops : PairSeqs(MaxOps)]

InitLinear ==
    /\ parts = None
    /\ input \in FlatLists
    /\ pc = "parsed"
    /\ first = input.first
    /\ ops = input.ops
    /\ result = None

\* let (first, ops) = collapse_tree(first, ops, Mul)
PassMul ==
    /\ pc = "parsed"
    /\ first' = collapse_tree(first, ops, "Mul").first
    /\ ops' = collapse_tree(first, ops, "Mul").remain
    /\ pc' = "mul"
    /\ UNCHANGED <<parts, input, result>>

\* let (first, ops) = collapse_tree(first, ops, Div)
PassDiv ==
    /\ pc = "mul"
    /\ first' = collapse_tree(first, ops, "Div").first
    /\ ops' = collapse_tree(first, ops, "Div").remain
    /\ pc' = "div"
    /\ UNCHANGED <<parts, input, result>>

\* let (first, ops) = collapse_tree(first, ops, Add)
PassAdd ==
    /\ pc = "div"
    /\ first' = collapse_tree(first, ops, "Add").first
    /\ ops' = collapse_tree(first, ops, "Add").remain
    /\ pc' = "add"
    /\ UNCHANGED <<parts, input, result>>

\* let (first, ops) = collapse_tree(first, ops, Sub)
PassSub ==
    /\ pc = "add"
    /\ first' = collapse_tree(first, ops, "Sub").first
    /\ ops' = collapse_tree(first, ops, "Sub").remain
    /\ pc' = "sub"
    /\ UNCHANGED <<parts, input, result>>

\* assert_eq!(ops.len(), 0); Ok((input, first))
Return ==
    /\ pc = "sub"
    /\ IF Len(ops) = 0
       THEN pc' = "done" /\ result' = first
       ELSE pc' = "panic" /\ result' = None
    /\ UNCHANGED <<parts, input, first, ops>>

NextLinear == PassMul \/ PassDiv \/ PassAdd \/ PassSub \/ Return

SpecLinear == InitLinear /\ [][NextLinear]_vars

-----------------------------------------------------------------------------
(* The run of graphql_query on what consume_query returned.                *)

MaxItems == 2

RECURSIVE SeqsUpTo(_, _)
SeqsUpTo(S, n) ==
    IF n = 0 THEN {<<>>}
    ELSE LET shorter == SeqsUpTo(S, n - 1)
         IN shorter \cup
            {Append(s, x) : s \in {q \in shorter : Len(q) = n - 1}, x \in S}

OperationKinds == {"Query", "Mutation", "Subscription", "SelectionSet", "Fragment"}

ParseOutcomes ==
    {[ok |-> FALSE]} \cup
    {[ok |-> TRUE, rest |-> <<>>, def |-> Definition(k, n, v, d, s)] :
        k \in OperationKinds,
        n \in {None, Some("N")},
        v \in {<<>>, <<"$v">>},
        d \in SeqsUpTo({Directive("d1"), Directive("d2")}, MaxItems),
        s \in SeqsUpTo({Field("a"), Field("b")}, MaxItems)}

InitQuery ==
    /\ parts = None
    /\ input \in ParseOutcomes
    /\ pc = "start"
    /\ first = None
    /\ ops = <<>>
    /\ result = None

\* graphql_query returns; the query text itself is immaterial (empty)
RunGraphqlQuery ==
    /\ pc = "start"
    /\ result' = GraphqlQuery(<<>>, input)
    /\ pc' = "graphql_query"
    /\ UNCHANGED <<parts, input, first, ops>>

NextQuery == RunGraphqlQuery

SpecQuery == InitQuery /\ [][NextQuery]_vars

-----------------------------------------------------------------------------
(* The runs of the parsers on texts written from pieces.                   *)

MaxBoolOps == 2

MaxStatements == 3

RECURSIVE Concat(_)
Concat(pieces) ==
    IF pieces = <<>> THEN <<>> ELSE Head(pieces) \o Concat(Tail(pieces))

\* no whitespace, one space, a run of other whitespace
WsTexts == {<<>>, <<" ">>, <<"\r", "\n", "\t">>}

\* `1`, `-2`, `$a`, `(1 + 10)`
LinearLeafTexts ==
    {<<"1">>,
     <<"-", "2">>,
     <<"$", "a">>,
     <<"(", "1", " ", "+", " ", "1", "0", ")">>}

\* `+`, `-`, `*`, `/`
LinearOpTexts == {<<"+">>, <<"-">>, <<"*">>, <<"/">>}

\* `1`, `-2`, `$a`, `1 + 2`, `(1 + 10)`
LinearTexts ==
    {<<"1">>,
     <<"-", "2">>,
     <<"$", "a">>,
     <<"1", " ", "+", " ", "2">>,
     <<"(", "1", " ", "+", " ", "1", "0", ")">>}

\* `==`, `!=`, `>=`, `<=`, `>`, `<`
ComparisonOpTexts ==
    {<<"=", "=">>, <<"!", "=">>, <<">", "=">>, <<"<", "=">>, <<">">>, <<"<">>}

\* `true`, `false`, `$b`, `1 == 0`, `(true || $b)`
ConditionLeafTexts ==
    {<<"t", "r", "u", "e">>,
     <<"f", "a", "l", "s", "e">>,
     <<"$", "b">>,
     <<"1", " ", "=", "=", " ", "0">>,
     <<"(", "t", "r", "u", "e", " ", "|", "|", " ", "$", "b", ")">>}

\* `||`, `&&`
BooleanOpTexts == {<<"|", "|">>, <<"&", "&">>}

\* texts for condition_leaf that more than one alternative could read:
\* `$a == 1`, `($a) == 1`, `(1) == 1`, `1 >= 2`, `($a)`, `$a`, `(true)`
OverlapTexts ==
    {<<"$", "a", " ", "=", "=", " ", "1">>,
     <<"(", "$", "a", ")", " ", "=", "=", " ", "1">>,
     <<"(", "1", ")", " ", "=", "=", " ", "1">>,
     <<"1", " ", ">", "=", " ", "2">>,
     <<"(", "$", "a", ")">>,
     <<"$", "a">>,
     <<"(", "t", "r", "u", "e", ")">>}

\* statements, and texts that are no statement:
\* `query{a} => 1;`, `query{a b} where $a => 2 * $a; `, `\nquery{a} => 1 + 2;\n`,
\* `query{a} => 1+2;`, `{a} => 1;`, `query{a} => 1`, `junk`
StatementTexts ==
    {<<"q", "u", "e", "r", "y", "{", "a", "}", " ", "=", ">", " ", "1", ";">>,
     <<"q", "u", "e", "r", "y", "{", "a", " ", "b", "}", " ", "w", "h", "e", "r", "e", " ", "$", "a", " ", "=", ">", " ", "2", " ", "*", " ", "$", "a", ";", " ">>,
     <<"\n", "q", "u", "e", "r", "y", "{", "a", "}", " ", "=", ">", " ", "1", " ", "+", " ", "2", ";", "\n">>,
     <<"q", "u", "e", "r", "y", "{", "a", "}", " ", "=", ">", " ", "1", "+", "2", ";">>,
     <<"{", "a", "}", " ", "=", ">", " ", "1", ";">>,
     <<"q", "u", "e", "r", "y", "{", "a", "}", " ", "=", ">", " ", "1">>,
     <<"j", "u", "n", "k">>}

Source(shape, pieces) == [shape |-> shape, pieces |-> pieces]

\* a op b, with or without whitespace around the operator
LinearSources ==
    {Source("linear", <<a, wl, o, wr, b>>) :
        a \in LinearLeafTexts, wl \in WsTexts, o \in LinearOpTexts,
        wr \in WsTexts, b \in LinearLeafTexts}

ConditionBinarySources ==
    {Source("condition", <<a, wl, o, wr, b>>) :
        a \in ConditionLeafTexts, wl \in WsTexts, o \in BooleanOpTexts,
        wr \in WsTexts, b \in ConditionLeafTexts}

\* leaf0 (` op ` leaf)*: the chains of up to n operators
RECURSIVE ConditionChains(_)
ConditionChains(n) ==
    IF n = 0 THEN {<<l>> : l \in ConditionLeafTexts}
    ELSE LET shorter == ConditionChains(n - 1)
         IN shorter \cup
            {s \o <<<<" ">>, o, <<" ">>, l>> :
                s \in {q \in shorter : Len(q) = 4 * (n - 1) + 1},
                o \in BooleanOpTexts, l \in ConditionLeafTexts}

ConditionChainSources ==
    {Source("condition", c) : c \in ConditionChains(MaxBoolOps)}

\* l op r
ComparisonSources ==
    {Source("comparison", <<l, wl, o, wr, r>>) :
        l \in LinearTexts, wl \in WsTexts, o \in ComparisonOpTexts,
        wr \in WsTexts, r \in LinearTexts}

LeafSources ==
    {Source("leaf", <<x>>) :
        x \in OverlapTexts \cup ConditionLeafTexts \cup LinearLeafTexts}

DocumentSources ==
    {Source("document", d) : d \in SeqsUpTo(StatementTexts, MaxStatements)}

TextSources ==
    LinearSources \cup ConditionBinarySources \cup ConditionChainSources
    \cup ComparisonSources \cup LeafSources \cup DocumentSources

InitText ==
    /\ parts \in TextSources
    /\ input = Concat(parts.pieces)
    /\ pc = "start"
    /\ first = None
    /\ ops = <<>>
    /\ result = None

RunLinearExpression ==
    /\ pc = "start"
    /\ parts.shape = "linear"
    /\ result' = linear_expression(input)
    /\ pc' = "linear_expression"
    /\ UNCHANGED <<parts, input, first, ops>>

RunCondition ==
    /\ pc = "start"
    /\ parts.shape = "condition"
    /\ result' = condition(input)
    /\ pc' = "condition"
    /\ UNCHANGED <<parts, input, first, ops>>

RunComparison ==
    /\ pc = "start"
    /\ parts.shape = "comparison"
    /\ result' = comparison(input)
    /\ pc' = "comparison"
    /\ UNCHANGED <<parts, input, first, ops>>

RunConditionLeaf ==
    /\ pc = "start"
    /\ parts.shape = "leaf"
    /\ result' = condition_leaf(input)
    /\ pc' = "condition_leaf"
    /\ UNCHANGED <<parts, input, first, ops>>

RunDocument ==
    /\ pc = "start"
    /\ parts.shape = "document"
    /\ result' = document(input)
    /\ pc' = "document"
    /\ UNCHANGED <<parts, input, first, ops>>

NextText ==
    \/ RunLinearExpression
    \/ RunCondition
    \/ RunComparison
    \/ RunConditionLeaf
    \/ RunDocument

SpecText == InitText /\ [][NextText]_vars

-----------------------------------------------------------------------------
(* Reference notions the regrouping is compared with.                      *)

\* The standard arithmetic parse of leaf0 (op1, leaf1) ... : `*` and `/`
\* bind tighter than `+` and `-`, every level associates to the left.
\* sum/pend: the additive chain so far and its pending operator;
\* term: the multiplicative chain being built.
RECURSIVE StdLoop(_, _, _, _, _)
StdLoop(hasSum, sum, pend, term, rest) ==
    LET closed == IF hasSum THEN BinaryExpression(sum, pend, term) ELSE term
    IN IF rest = <<>> THEN closed
       ELSE LET p == Head(rest)
            IN IF p.op \in {"Mul", "Div"}
               THEN StdLoop(hasSum, sum, pend,
                            BinaryExpression(term, p.op, p.expr), Tail(rest))
               ELSE StdLoop(TRUE, closed, p.op, p.expr, Tail(rest))

StdParse(flat) == StdLoop(FALSE, None, "Add", flat.first, flat.ops)

\* The sequence of leaves and operators of a tree, left to right.
RECURSIVE Inorder(_)
Inorder(e) ==
    IF e.t = "BinaryExpression"
    THEN Inorder(e.lhs) \o <<[t |-> "Op", op |-> e.op]>> \o Inorder(e.rhs)
    ELSE <<e>>

RECURSIVE InorderPairs(_)
InorderPairs(ps) ==
    IF ps = <<>> THEN <<>>
    ELSE <<[t |-> "Op", op |-> Head(ps).op]>> \o Inorder(Head(ps).expr)
         \o InorderPairs(Tail(ps))

InorderFlat(f, ps) == Inorder(f) \o InorderPairs(ps)

OpsOf(ps) == [i \in 1..Len(ps) |-> ps[i].op]

\* Evaluation of a constant tree over `+`, `-`, `*` (expressions.rs).
RECURSIVE Eval(_)
Eval(e) ==
    IF e.t = "Const" THEN e.v
    ELSE CASE e.op = "Add" -> Eval(e.lhs) + Eval(e.rhs)
           [] e.op = "Sub" -> Eval(e.lhs) - Eval(e.rhs)
           [] e.op = "Mul" -> Eval(e.lhs) * Eval(e.rhs)

\* The conventional value of a flat list over `+` and `*`: the sum of the
\* products of its maximal `*` runs.
RECURSIVE SumOfProducts(_, _, _)
SumOfProducts(sum, prod, rest) ==
    IF rest = <<>> THEN sum + prod
    ELSE LET p == Head(rest)
         IN IF p.op = "Mul"
            THEN SumOfProducts(sum, prod * Eval(p.expr), Tail(rest))
            ELSE SumOfProducts(sum + prod, Eval(p.expr), Tail(rest))

OnlyAddMul(ps) == \A i \in 1..Len(ps) : ps[i].op \in {"Add", "Mul"}

-----------------------------------------------------------------------------
(* Claims about the regrouping (SpecLinear).                               *)

\* C1: the tree returned by linear_expression is the standard arithmetic
\* parse of the flat list: `*`, `/` bind tighter than `+`, `-`, and every
\* run of equal-precedence operators, mixed runs included, associates to
\* the left.
C1_StandardParse ==
    pc = "done" => result = StdParse(input)

\* C2: for a flat list over `+` and `*` only, every `*` is grouped with its
\* neighbouring leaves before any `+` is applied: the tree is the standard
\* parse and evaluates to the conventional value (the sum of the products).
C2_AddMulPrecedence ==
    (pc = "done" /\ OnlyAddMul(input.ops)) =>
        /\ result = StdParse(input)
        /\ Eval(result) = SumOfProducts(0, Eval(input.first), input.ops)

\* `1 + 10 * 2` has been regrouped to 1 + (10 * 2), which is 21.
C2_Witness ==
    /\ pc = "done"
    /\ input = [first |-> Const(1),
                ops |-> <<Pair("Add", Const(10)), Pair("Mul", Const(2))>>]
    /\ result = BinaryExpression(Const(1), "Add",
                                 BinaryExpression(Const(10), "Mul", Const(2)))
    /\ Eval(result) = 21

\* C7: after the passes Mul, Div, Add, Sub the pending list is empty: the
\* assertion of linear_expression never fails and a tree is returned.
C7_PendingEmpty ==
    /\ pc # "panic"
    /\ pc \in {"sub", "done"} => ops = <<>>
    /\ pc = "done" => result = first /\ result # None

\* a list with three pairs of three different kinds has been regrouped
C7_Witness ==
    /\ pc = "done"
    /\ Len(input.ops) >= 3
    /\ Cardinality({input.ops[i].op : i \in 1..Len(input.ops)}) >= 3
    /\ ops = <<>>

PassKind(p) ==
    CASE p = "mul" -> "Mul" [] p = "div" -> "Div"
      [] p = "add" -> "Add" [] p = "sub" -> "Sub"

\* C10: a pass for kind k removes exactly the pairs of kind k; the other
\* pairs stay in the pending list in the same order with the same operator,
\* and a right-hand operand only grows; no pass drops, duplicates or
\* reorders a leaf or an operator, so the returned tree reads, in order, as
\* the original flat sequence.
C10_PassFrame ==
    [][ /\ pc' \in {"mul", "div", "add", "sub"} =>
             /\ OpsOf(ops') = SelectSeq(OpsOf(ops), LAMBDA o : o # PassKind(pc'))
             /\ \A j \in 1..Len(ops') :
                    \E i \in 1..Len(ops) :
                        /\ ops[i].op = ops'[j].op
                        /\ IsPrefix(Inorder(ops[i].expr), Inorder(ops'[j].expr))
             /\ InorderFlat(first', ops') = InorderFlat(first, ops)
        /\ pc' = "done" =>
             Inorder(result') = InorderFlat(input.first, input.ops)
      ]_vars

\* `a - b * c + d`: every pass had something to keep or to remove
C10_Witness ==
    /\ pc = "done"
    /\ OpsOf(input.ops) = <<"Sub", "Mul", "Add">>
    /\ Inorder(result) = InorderFlat(input.first, input.ops)

-----------------------------------------------------------------------------
(* Claims about graphql_query (SpecQuery).                                 *)

\* the shapes graphql_query is said to accept
Accepted(q) ==
    /\ q.ok
    /\ q.def.kind = "Query"
    /\ q.def.name = None
    /\ Len(q.def.variable_definitions) = 0
    /\ (q.def.directives = <<>>) # (q.def.items = <<>>)

\* C4: graphql_query succeeds exactly on an anonymous query operation without
\* variable definitions in which exactly one of the directive list and the
\* selection list is non-empty; it returns Selection(last item) when there is
\* no directive and Directive(last directive) when there is no item; in
\* every other case it fails with the Verify error kind and yields no item.
C4_AcceptedShapes ==
    pc = "graphql_query" =>
        /\ result.ok <=> Accepted(input)
        /\ (Accepted(input) /\ input.def.directives = <<>>) =>
               result.val = [t |-> "Selection",
                             item |-> input.def.items[Len(input.def.items)]]
        /\ (Accepted(input) /\ input.def.items = <<>>) =>
               result.val = [t |-> "Directive",
                             item |-> input.def.directives[Len(input.def.directives)]]
        /\ ~Accepted(input) =>
               /\ result.kind = "Verify"
               /\ "val" \notin DOMAIN result

\* of the two items `a b` the last one, b, has been returned
C4_Witness ==
    /\ pc = "graphql_query"
    /\ input.ok
    /\ input.def.items = <<Field("a"), Field("b")>>
    /\ input.def.directives = <<>>
    /\ result.ok
    /\ result.val = [t |-> "Selection", item |-> Field("b")]

-----------------------------------------------------------------------------
(* Claims about the parsers run on text (SpecText).                        *)

Spaced(pieces) == \A k \in 1..Len(pieces) : k % 2 = 0 => pieces[k] # <<>>

BooleanOpOf(text) == IF text = <<"|", "|">> THEN "Or" ELSE "And"

ComparisonOpOf(text) ==
    CASE text = <<"=", "=">> -> "Eq" [] text = <<"!", "=">> -> "Ne"
      [] text = <<">", "=">> -> "Ge" [] text = <<"<", "=">> -> "Le"
      [] text = <<">">> -> "Gt" [] text = <<"<">> -> "Lt"

\* the strict left fold of leaf0 (ws op ws leaf)*, built from its last pair
RECURSIVE LeftChain(_)
LeftChain(pieces) ==
    LET n == Len(pieces)
    IN IF n = 1 THEN condition_leaf(pieces[1]).val
       ELSE Boolean(LeftChain(SubSeq(pieces, 1, n - 4)),
                    BooleanOpOf(pieces[n - 2]),
                    condition_leaf(pieces[n]).val)

\* C3: condition folds leaf0 (bop1 leaf1) ... (bopN leafN) strictly to the
\* left: `||` and `&&` have the same precedence, `a || b && c` is
\* (a || b) && c and not a || (b && c).
C3_LeftFold ==
    (pc = "condition" /\ Spaced(parts.pieces)) =>
        /\ result.ok
        /\ result.rest = <<>>
        /\ result.val = LeftChain(parts.pieces)
        /\ Len(parts.pieces) = 9 =>
               result.val # Boolean(condition_leaf(parts.pieces[1]).val,
                                    BooleanOpOf(parts.pieces[3]),
                                    Boolean(condition_leaf(parts.pieces[5]).val,
                                            BooleanOpOf(parts.pieces[7]),
                                            condition_leaf(parts.pieces[9]).val))

\* `true || $b && false` has been read as (true || $b) && false
C3_Witness ==
    /\ pc = "condition"
    /\ input = <<"t", "r", "u", "e", " ", "|", "|", " ", "$", "b", " ", "&", "&", " ", "f", "a", "l", "s", "e">>
    /\ result.ok
    /\ result.val = Boolean(Boolean(Const(TRUE), "Or", Variable(<<"$", "b">>)),
                            "And", Const(FALSE))

\* C6: the whitespace around the operator of linear_expression and of
\* condition is optional: `a op b` written with or without whitespace is
\* consumed completely and gives the node of `a op b`.
C6_WhitespaceOptional ==
    (pc \in {"linear_expression", "condition"} /\ Len(parts.pieces) = 5) =>
        LET spaced == parts.pieces[1] \o <<" ">> \o parts.pieces[3]
                      \o <<" ">> \o parts.pieces[5]
        IN /\ result.ok
           /\ result.rest = <<>>
           /\ result = IF pc = "condition" THEN condition(spaced)
                       ELSE linear_expression(spaced)

\* C8: comparison reads `l op r` as the comparison node with exactly the
\* operator written, for each of `==`, `!=`, `>=`, `<=`, `>`, `<`: `>=` and
\* `<=` are not taken for `>` and `<`.
C8_ComparisonOperator ==
    pc = "comparison" =>
        /\ result.ok
        /\ result.rest = <<>>
        /\ result.val = BinaryExpression(linear_expression(parts.pieces[1]).val,
                                         ComparisonOpOf(parts.pieces[3]),
                                         linear_expression(parts.pieces[5]).val)

\* `1>=(1 + 10)` has been read with the operator Ge
C8_Witness ==
    /\ pc = "comparison"
    /\ input = <<"1", ">", "=", "(", "1", " ", "+", " ", "1", "0", ")">>
    /\ result.ok
    /\ result.val.op = "Ge"
    /\ result.val.rhs = BinaryExpression(Const(1), "Add", Const(10))

Suffixes(i) == {Drop(i, n) : n \in 0..Len(i)}

Matching(alternatives) ==
    Cardinality({k \in 1..Len(alternatives) : alternatives[k].ok})

ConditionLeafAlternatives(i) ==
    <<ParenthesizedCondition(i), ComparisonCondition(i), variable(i), const_bool(i)>>

LinearLeafAlternatives(i) ==
    <<ParenthesizedLinear(i), int(i), variable(i)>>

ConstBoolAlternatives(i) ==
    <<Tag(<<"t", "r", "u", "e">>, i), Tag(<<"f", "a", "l", "s", "e">>, i)>>

LinearOperatorAlternatives(i) ==
    <<binary_operator(i, <<"+">>, "Add"), binary_operator(i, <<"-">>, "Sub"),
      binary_operator(i, <<"*">>, "Mul"), binary_operator(i, <<"/">>, "Div")>>

BooleanOperatorAlternatives(i) ==
    <<binary_operator(i, <<"|", "|">>, "Or"), binary_operator(i, <<"&", "&">>, "And")>>

ComparisonOperatorAlternatives(i) ==
    [k \in 1..Len(ComparisonTags) |->
        binary_operator(i, ComparisonTags[k].tag, ComparisonTags[k].op)]

\* the result of the first alternative that matches
FirstMatch(alternatives) ==
    alternatives[CHOOSE k \in 1..Len(alternatives) :
                    /\ alternatives[k].ok
                    /\ \A j \in 1..(k - 1) : ~alternatives[j].ok]

\* C9: the alternatives of every ordered choice are mutually exclusive: at
\* any input position at most one alternative of condition_leaf, of
\* linear_expression_leaf and of the operator choices can match.
C9_AllExclusive ==
    pc # "start" =>
        \A s \in Suffixes(input) :
            /\ Matching(ConditionLeafAlternatives(s)) <= 1
            /\ Matching(LinearLeafAlternatives(s)) <= 1
            /\ Matching(ConstBoolAlternatives(s)) <= 1
            /\ Matching(LinearOperatorAlternatives(s)) <= 1
            /\ Matching(BooleanOperatorAlternatives(s)) <= 1
            /\ Matching(ComparisonOperatorAlternatives(s)) <= 1

\* C9, amended: the alternatives of linear_expression_leaf, of const_bool and
\* of the arithmetic and boolean operator choices are mutually exclusive;
\* those of condition_leaf and of the comparison operators are not, and
\* where several of them match the first one in source order is taken.
C9_ExclusiveOrFirst ==
    pc # "start" =>
        \A s \in Suffixes(input) :
            /\ Matching(LinearLeafAlternatives(s)) <= 1
            /\ Matching(ConstBoolAlternatives(s)) <= 1
            /\ Matching(LinearOperatorAlternatives(s)) <= 1
            /\ Matching(BooleanOperatorAlternatives(s)) <= 1
            /\ Matching(ConditionLeafAlternatives(s)) >= 1 =>
                   condition_leaf(s) = FirstMatch(ConditionLeafAlternatives(s))
            /\ Matching(ComparisonOperatorAlternatives(s)) >= 1 =>
                   any_comparison_operator(s) =
                       FirstMatch(ComparisonOperatorAlternatives(s))

\* condition_leaf has read `($a) == 1`: the parenthesized condition and the
\* comparison both match, the first was taken; the leaf `($a)` of the
\* comparison matches one alternative of linear_expression_leaf only
C9_Witness ==
    /\ pc = "condition_leaf"
    /\ input = <<"(", "$", "a", ")", " ", "=", "=", " ", "1">>
    /\ Matching(ConditionLeafAlternatives(input)) = 2
    /\ Matching(LinearLeafAlternatives(input)) = 1
    /\ result = ParenthesizedCondition(input)
    /\ result.rest # <<>>

IsSuffix(s, i) == Len(s) <= Len(i) /\ Drop(i, Len(i) - Len(s)) = s

\* text is the concatenation of texts that statement reads completely, one
\* for each of stmts, in order
RECURSIVE Segmented(_, _)
Segmented(text, stmts) ==
    IF stmts = <<>> THEN text = <<>>
    ELSE \E n \in 1..Len(text) :
            /\ statement(Take(text, n)) = Ok(<<>>, Head(stmts))
            /\ Segmented(Drop(text, n), Tail(stmts))

\* C5: document always succeeds, with statements s1..sn and a remainder r:
\* the consumed prefix is the concatenation of n complete statement matches,
\* statement fails at r, and that failed attempt adds no statement and
\* consumes nothing; trailing text that is no statement stays in r and no
\* error is reported.
C5_CompleteStatements ==
    pc = "document" =>
        /\ result.ok
        /\ IsSuffix(result.rest, input)
        /\ ~statement(result.rest).ok
        /\ Segmented(Take(input, Len(input) - Len(result.rest)),
                     result.val.statements)

\* a statement has been read and the text after it, which is no statement,
\* is the remainder
C5_Witness ==
    /\ pc = "document"
    /\ result.ok
    /\ Len(result.val.statements) >= 1
    /\ result.rest # <<>>
    /\ Len(result.rest) < Len(input)

====
